---- MODULE Spec2Model ----
(***************************************************************************)
(* Model of src/lib.rs: reading and adjusting the scheduling priority of   *)
(* the calling process (Unix niceness) or thread (Windows thread priority).*)
(* The two exported operations, nice and get_current_process_priority, are *)
(* modelled on both platforms together with the native facilities they     *)
(* call (libc::nice, libc::getpriority, errno, SetThreadPriority,          *)
(* GetThreadPriority) and the WindowsThreadPriority conversion.            *)
(***************************************************************************)
EXTENDS Integers, Sequences, FiniteSets, TLC

VARIABLES
  platform,    \* "unix" or "windows": the cfg the crate is built for
  privileged,  \* Unix: the OS lets the process lower its niceness
  niceness,    \* Unix: the niceness of the calling process
  thread,      \* Windows: priority state of the calling thread
  errno,       \* the calling thread's error indicator (errno / last error)
  last,        \* the most recent invocation and its result
  prev,        \* the invocation before it
  conv         \* the most recent try_from conversion and its result

vars == <<platform, privileged, niceness, thread, errno, last, prev, conv>>

(***************************************************************************)
(* Bounds of the model.                                                    *)
(***************************************************************************)
\* the increments handed to nice on Unix are 0, 1, -MaxDelta, MaxDelta and
\* the two ends of the i32 range
MaxDelta == 5
\* WindowsThreadPriority::try_from is applied to -MaxValue..MaxValue and to
\* the values of ExtraValues
MaxValue == 50

(***************************************************************************)
(* Results: napi::Result<i32> and napi::Result<WindowsThreadPriority>.     *)
(***************************************************************************)
Ok(v) == [ok |-> TRUE, val |-> v, level |-> "", kind |-> "", code |-> 0, msg |-> <<>>]

OkLevel(l) == [ok |-> TRUE, val |-> 0, level |-> l, kind |-> "", code |-> 0, msg |-> <<>>]

\* an error made from std::io::Error::last_os_error(): it carries the OS code
OsErr(c) == [ok |-> FALSE, val |-> 0, level |-> "", kind |-> "Os", code |-> c, msg |-> <<>>]

\* Error::new(status, message)
NewErr(status, c, m) == [ok |-> FALSE, val |-> 0, level |-> "", kind |-> status, code |-> c, msg |-> m]

\* Option<i32>
None == [some |-> FALSE, v |-> 0]

Some(x) == [some |-> TRUE, v |-> x]

unwrap_or(opt, d) == IF opt.some THEN opt.v ELSE d

(***************************************************************************)
(* Decimal formatting of an i32, as format!("{value}") writes it: a        *)
(* sequence of characters, with a leading minus sign for negatives.        *)
(***************************************************************************)
DigitChar(d) == CASE d = 0 -> "0" [] d = 1 -> "1" [] d = 2 -> "2" [] d = 3 -> "3"
                  [] d = 4 -> "4" [] d = 5 -> "5" [] d = 6 -> "6" [] d = 7 -> "7"
                  [] d = 8 -> "8" [] d = 9 -> "9"

RECURSIVE Digits(_)
Digits(n) == IF n < 10 THEN <<DigitChar(n)>>
             ELSE Append(Digits(n \div 10), DigitChar(n % 10))

Display(v) == IF v < 0 THEN <<"-">> \o Digits(0 - v) ELSE Digits(v)

NotValidSuffix == " is not a valid priority on Windows"

\* format!("{value} is not a valid priority on Windows")
InvalidMessage(value) == Append(Display(value), NotValidSuffix)

(***************************************************************************)
(* WindowsThreadPriority and its conversions.                              *)
(***************************************************************************)
WindowsThreadPriority ==
  { "ThreadModeBackgroundBegin", "ThreadModeBackgroundEnd",
    "ThreadPriorityAboveNormal", "ThreadPriorityBelowNormal",
    "ThreadPriorityHighest", "ThreadPriorityIdle", "ThreadPriorityLowest",
    "ThreadPriorityNormal", "ThreadPriorityTimeCritical" }

\* the discriminant of a level: `priority as i32`
AsI32(level) ==
  CASE level = "ThreadModeBackgroundBegin" -> 65536
    [] level = "ThreadModeBackgroundEnd" -> 131072
    [] level = "ThreadPriorityAboveNormal" -> 1
    [] level = "ThreadPriorityBelowNormal" -> -1
    [] level = "ThreadPriorityHighest" -> 2
    [] level = "ThreadPriorityIdle" -> -15
    [] level = "ThreadPriorityLowest" -> -2
    [] level = "ThreadPriorityNormal" -> 0
    [] level = "ThreadPriorityTimeCritical" -> 15

\* try_from with the arm of one level left out
TryFromMissingArm(value) ==
  CASE value = 65536 -> OkLevel("ThreadModeBackgroundBegin")
    [] value = 131072 -> OkLevel("ThreadModeBackgroundEnd")
    [] value = 1 -> OkLevel("ThreadPriorityAboveNormal")
    [] value = -1 -> OkLevel("ThreadPriorityBelowNormal")
    [] value = 2 -> OkLevel("ThreadPriorityHighest")
    [] value = -15 -> OkLevel("ThreadPriorityIdle")
    [] value = -2 -> OkLevel("ThreadPriorityLowest")
    [] value = 0 -> OkLevel("ThreadPriorityNormal")
    [] OTHER -> NewErr("InvalidArg", 0, InvalidMessage(value))

\* try_from rounding an out-of-table value to the nearest level below it
TryFromClamping(value) ==
  CASE value = 65536 -> OkLevel("ThreadModeBackgroundBegin")
    [] value = 131072 -> OkLevel("ThreadModeBackgroundEnd")
    [] value = 1 -> OkLevel("ThreadPriorityAboveNormal")
    [] value = -1 -> OkLevel("ThreadPriorityBelowNormal")
    [] value = 2 -> OkLevel("ThreadPriorityHighest")
    [] value = -15 -> OkLevel("ThreadPriorityIdle")
    [] value = -2 -> OkLevel("ThreadPriorityLowest")
    [] value = 0 -> OkLevel("ThreadPriorityNormal")
    [] value = 15 -> OkLevel("ThreadPriorityTimeCritical")
    [] value > 2 /\ value < 15 -> OkLevel("ThreadPriorityHighest")
    [] OTHER -> NewErr("InvalidArg", 0, InvalidMessage(value))

\* impl TryFrom<i32> for WindowsThreadPriority
try_from(value) ==
  CASE value = 65536 -> OkLevel("ThreadModeBackgroundBegin")
    [] value = 131072 -> OkLevel("ThreadModeBackgroundEnd")
    [] value = 1 -> OkLevel("ThreadPriorityAboveNormal")
    [] value = -1 -> OkLevel("ThreadPriorityBelowNormal")
    [] value = 2 -> OkLevel("ThreadPriorityHighest")
    [] value = -15 -> OkLevel("ThreadPriorityIdle")
    [] value = -2 -> OkLevel("ThreadPriorityLowest")
    [] value = 0 -> OkLevel("ThreadPriorityNormal")
    [] value = 15 -> OkLevel("ThreadPriorityTimeCritical")
    [] OTHER -> NewErr("InvalidArg", 0, InvalidMessage(value))

\* the mapping with the constants of two levels exchanged
IntoThreadPrioritySwapped(level) ==
  CASE level = "ThreadModeBackgroundBegin" -> 65536
    [] level = "ThreadModeBackgroundEnd" -> 131072
    [] level = "ThreadPriorityAboveNormal" -> 2
    [] level = "ThreadPriorityBelowNormal" -> -1
    [] level = "ThreadPriorityHighest" -> 1
    [] level = "ThreadPriorityIdle" -> -15
    [] level = "ThreadPriorityLowest" -> -2
    [] level = "ThreadPriorityNormal" -> 0
    [] level = "ThreadPriorityTimeCritical" -> 15

\* impl From<WindowsThreadPriority> for THREAD_PRIORITY: the native constant
\* of each level
IntoThreadPriority(level) ==
  CASE level = "ThreadModeBackgroundBegin" -> 65536
    [] level = "ThreadModeBackgroundEnd" -> 131072
    [] level = "ThreadPriorityAboveNormal" -> 1
    [] level = "ThreadPriorityBelowNormal" -> -1
    [] level = "ThreadPriorityHighest" -> 2
    [] level = "ThreadPriorityIdle" -> -15
    [] level = "ThreadPriorityLowest" -> -2
    [] level = "ThreadPriorityNormal" -> 0
    [] level = "ThreadPriorityTimeCritical" -> 15

(***************************************************************************)
(* The native facilities of Unix.  The niceness of a process ranges over   *)
(* NiceMin..NiceMax; the kernel clamps a requested value into that range   *)
(* and refuses (EPERM) to lower the niceness of an unprivileged process.   *)
(* `e` is errno before the call.  A facility may fail for a reason outside *)
(* the program: getpriority takes the error code it fails with (0: none);  *)
(* nice takes a record [code, late, wraps]: the error code, whether the    *)
(* failure hits the query nice ends with rather than an earlier step, and  *)
(* the outcome of an overflowing addition.                                 *)
(***************************************************************************)
MaxI32 == 2147483647

MinI32 == -2147483647 - 1

\* a + b lies outside the range of a C int
Overflows(a, b) ==
  \/ a > 0 /\ b > 0 /\ b > MaxI32 - a
  \/ a < 0 /\ b < 0 /\ b < MinI32 - a

\* the value a + b wraps around to when it overflows
Wrapped(a, b) ==
  IF a > 0 THEN MinI32 + (a - (MaxI32 - b) - 1)
  ELSE MaxI32 + (a - (MinI32 - b) + 1)

\* prio + incr as libc::nice computes it, in a C int.  Signed overflow is
\* undefined behaviour in C: the sum wraps around (what an x86-64 glibc does)
\* or saturates, as `wraps` says.
IntSum(prio, incr, wraps) ==
  IF ~Overflows(prio, incr) THEN prio + incr
  ELSE IF wraps THEN Wrapped(prio, incr)
  ELSE IF prio > 0 THEN MaxI32 ELSE MinI32

NoFault == [code |-> 0, late |-> FALSE, wraps |-> TRUE]

NiceMin == -20

NiceMax == 19

Clamp(n) == IF n < NiceMin THEN NiceMin ELSE IF n > NiceMax THEN NiceMax ELSE n

\* libc::nice(incr): getpriority, setpriority(prio + incr), getpriority.
\* It returns the new niceness, or -1 with errno set; errno is left alone
\* on success.  A failure of the first query or of the set leaves the
\* niceness alone; a failure of the last query returns -1 with the niceness
\* already changed.
libc_nice(p, incr, priv, f, e) ==
  LET t == Clamp(IntSum(p, incr, f.wraps)) IN
  IF f.code # 0 /\ ~f.late
    THEN [ret |-> -1, errno |-> f.code, niceness |-> p, ok |-> FALSE]
  ELSE IF t < p /\ ~priv
    THEN [ret |-> -1, errno |-> 1, niceness |-> p, ok |-> FALSE]
  ELSE IF f.code # 0
    THEN [ret |-> -1, errno |-> f.code, niceness |-> t, ok |-> FALSE]
  ELSE [ret |-> t, errno |-> e, niceness |-> t, ok |-> TRUE]

\* libc::getpriority(PRIO_PROCESS, 0): returns the niceness, or -1 with
\* errno set.  errno is left alone on success.
libc_getpriority(p, f, e) ==
  IF f # 0
    THEN [ret |-> -1, errno |-> f, ok |-> FALSE]
    ELSE [ret |-> p, errno |-> e, ok |-> TRUE]

(***************************************************************************)
(* The native facilities of Windows.  A thread reports one of the seven    *)
(* priority levels and is or is not in background processing mode.         *)
(* Entering the mode lowers the thread's priorities and leaving it         *)
(* restores them as they were before (lib.rs:110, lib.rs:113); `saved` is  *)
(* the level leaving the mode restores.  What a thread in background mode  *)
(* reports is the OS's choice: with `b` it reports the lowered level, and  *)
(* otherwise the level last set.                                           *)
(***************************************************************************)
THREAD_MODE_BACKGROUND_BEGIN == 65536

THREAD_MODE_BACKGROUND_END == 131072

THREAD_PRIORITY_ERROR_RETURN == 2147483647

THREAD_PRIORITY_IDLE == -15

ThreadPriorities == {-15, -2, -1, 0, 1, 2, 15}

ThreadStates ==
  { t \in [priority : ThreadPriorities, background : BOOLEAN, saved : ThreadPriorities] :
      IF t.background THEN t.priority <= t.saved ELSE t.priority = t.saved }

\* SetThreadPriority(GetCurrentThread(), native).  Beginning background mode
\* fails on a thread already in it and ending it fails on a thread not in it
\* (lib.rs:111, lib.rs:114).
SetThreadPriority(t, native, f, e, b) ==
  IF f # 0
    THEN [ok |-> FALSE, code |-> f, thread |-> t, lasterr |-> f]
  ELSE IF native = THREAD_MODE_BACKGROUND_BEGIN
    THEN IF t.background
           THEN [ok |-> FALSE, code |-> 400, thread |-> t, lasterr |-> 400]
           ELSE [ok |-> TRUE, code |-> 0, lasterr |-> e,
                 thread |-> [priority |-> IF b THEN THREAD_PRIORITY_IDLE ELSE t.priority,
                             background |-> TRUE, saved |-> t.priority]]
  ELSE IF native = THREAD_MODE_BACKGROUND_END
    THEN IF ~t.background
           THEN [ok |-> FALSE, code |-> 401, thread |-> t, lasterr |-> 401]
           ELSE [ok |-> TRUE, code |-> 0, lasterr |-> e,
                 thread |-> [priority |-> t.saved, background |-> FALSE,
                             saved |-> t.saved]]
  ELSE IF t.background
    THEN [ok |-> TRUE, code |-> 0, lasterr |-> e,
          thread |-> [priority |-> IF b /\ t.priority <= native THEN t.priority ELSE native,
                      background |-> TRUE, saved |-> native]]
  ELSE [ok |-> TRUE, code |-> 0, lasterr |-> e,
        thread |-> [priority |-> native, background |-> FALSE, saved |-> native]]

\* GetThreadPriority(GetCurrentThread()): the thread's priority level, or
\* THREAD_PRIORITY_ERROR_RETURN with the last error set.
GetThreadPriority(t, f, e) ==
  IF f # 0
    THEN [ret |-> THREAD_PRIORITY_ERROR_RETURN, lasterr |-> f, ok |-> FALSE]
    ELSE [ret |-> t.priority, lasterr |-> e, ok |-> TRUE]

(***************************************************************************)
(* The exported operations.  Each takes the scheduling state `s` of the    *)
(* caller ([niceness, thread, errno, privileged]) and returns the result   *)
(* handed to the caller, the state left behind, the number of native       *)
(* priority calls made and whether the native call succeeded.              *)
(***************************************************************************)
\* nice on Unix handing the argument on as an absolute niceness
\* (setpriority) instead of an increment
nice_unix_absolute(opt, s, f) ==
  LET incr == unwrap_or(opt, 0)
      r == libc_nice(0, incr, s.privileged, f, s.errno)
  IN [res |-> IF r.ret = -1 THEN OsErr(r.errno) ELSE Ok(r.ret),
      niceness |-> r.niceness, thread |-> s.thread, errno |-> r.errno,
      calls |-> 1, nativeOk |-> r.ok]

\* nice on Unix calling libc::nice a second time when the first call fails
nice_unix_retry(opt, s, f) ==
  LET incr == unwrap_or(opt, 0)
      r1 == libc_nice(s.niceness, incr, s.privileged, f, s.errno)
      r == IF r1.ret = -1
             THEN libc_nice(r1.niceness, incr, s.privileged, f, r1.errno)
             ELSE r1
  IN [res |-> IF r.ret = -1 THEN OsErr(r.errno) ELSE Ok(r.ret),
      niceness |-> r.niceness, thread |-> s.thread, errno |-> r.errno,
      calls |-> IF r1.ret = -1 THEN 2 ELSE 1, nativeOk |-> r.ok]

\* nice, #[cfg(unix)]
nice_unix(opt, s, f) ==
  LET incr == unwrap_or(opt, 0)
      r == libc_nice(s.niceness, incr, s.privileged, f, s.errno)
  IN [res |-> IF r.ret = -1 THEN OsErr(r.errno) ELSE Ok(r.ret),
      niceness |-> r.niceness, thread |-> s.thread, errno |-> r.errno,
      calls |-> 1, nativeOk |-> r.ok]

\* nice on Windows applying the normal level when the argument is not a code
nice_windows_fallback(opt, s, f, b) ==
  LET incr == unwrap_or(opt, 0)
      priority == try_from(incr)
      level == IF priority.ok THEN priority.level ELSE "ThreadPriorityNormal"
      r == SetThreadPriority(s.thread, IntoThreadPriority(level), f, s.errno, b)
  IN [res |-> IF ~priority.ok THEN priority
              ELSE IF ~r.ok THEN NewErr("GenericFailure", r.code, <<>>)
              ELSE Ok(AsI32(level)),
      niceness |-> s.niceness, thread |-> r.thread, errno |-> r.lasterr,
      calls |-> 1, nativeOk |-> r.ok]

\* nice, #[cfg(windows)]
nice_windows(opt, s, f, b) ==
  LET incr == unwrap_or(opt, 0)
      priority == try_from(incr)
  IN IF ~priority.ok
       THEN [res |-> priority, niceness |-> s.niceness, thread |-> s.thread,
             errno |-> s.errno, calls |-> 0, nativeOk |-> FALSE]
       ELSE LET r == SetThreadPriority(s.thread, IntoThreadPriority(priority.level),
                                       f, s.errno, b)
            IN [res |-> IF ~r.ok THEN NewErr("GenericFailure", r.code, <<>>)
                        ELSE Ok(AsI32(priority.level)),
                niceness |-> s.niceness, thread |-> r.thread, errno |-> r.lasterr,
                calls |-> 1, nativeOk |-> r.ok]

\* the Unix read without the clearing of errno before the query
get_unix_noclear(s, f) ==
  LET r == libc_getpriority(s.niceness, f, s.errno)
      os_error == r.errno
  IN [res |-> IF os_error # 0 THEN OsErr(os_error) ELSE Ok(r.ret),
      niceness |-> s.niceness, thread |-> s.thread, errno |-> r.errno,
      calls |-> 1, nativeOk |-> r.ok]

\* get_current_process_priority, #[cfg(unix)]
get_unix(s, f) ==
  LET cleared == 0
      r == libc_getpriority(s.niceness, f, cleared)
      os_error == r.errno
  IN [res |-> IF os_error # 0 THEN OsErr(os_error) ELSE Ok(r.ret),
      niceness |-> s.niceness, thread |-> s.thread, errno |-> r.errno,
      calls |-> 1, nativeOk |-> r.ok]

\* the Windows read taking -1 for the error return
get_windows_minus_one(s, f) ==
  LET r == GetThreadPriority(s.thread, f, s.errno)
  IN [res |-> IF r.ret = -1 \/ r.ret = THREAD_PRIORITY_ERROR_RETURN
                THEN OsErr(r.lasterr) ELSE Ok(r.ret),
      niceness |-> s.niceness, thread |-> s.thread, errno |-> r.lasterr,
      calls |-> 1, nativeOk |-> r.ok]

\* get_current_process_priority, #[cfg(windows)]
get_windows(s, f) ==
  LET r == GetThreadPriority(s.thread, f, s.errno)
  IN [res |-> IF r.ret = THREAD_PRIORITY_ERROR_RETURN THEN OsErr(r.lasterr)
              ELSE Ok(r.ret),
      niceness |-> s.niceness, thread |-> s.thread, errno |-> r.lasterr,
      calls |-> 1, nativeOk |-> r.ok]

(***************************************************************************)
(* The state machine.  `last` and `prev` record the two most recent        *)
(* invocations: the operation, its argument, the state it started from,    *)
(* the native fault it met, what it returned and the error indicator it    *)
(* left behind.                                                            *)
(***************************************************************************)
Deltas == {0 - MaxDelta, 0, 1, MaxDelta, MinI32, MaxI32}

ExtraValues == {65535, 65536, 65537, 131071, 131072, 131073, 99, 100, 999,
                -100, 2147483647, -2147483647}

\* arguments handed to nice on Windows: the nine codes and invalid values
WindowsArgs == {AsI32(l) : l \in WindowsThreadPriority} \cup {3, 99, -16}

TryValues == ((0 - MaxValue)..MaxValue) \cup ExtraValues

UnixFaults == {0, 3}

\* what can befall a libc::nice call
NiceFaults == { f \in [code : UnixFaults, late : BOOLEAN, wraps : BOOLEAN] :
                  f.late => f.code # 0 }

WindowsFaults == {0, 6}

StaleErrors == {0, 2}

State == [niceness |-> niceness, thread |-> thread, errno |-> errno,
          privileged |-> privileged]

NoCall == [op |-> "none", arg |-> 0, fault |-> 0,
           before |-> [niceness |-> 0, errno |-> 0,
                       thread |-> [priority |-> 0, background |-> FALSE, saved |-> 0]],
           res |-> Ok(0), calls |-> 0, nativeOk |-> FALSE, oserror |-> 0]

Record(op, opt, f, out) ==
  [op |-> op, arg |-> unwrap_or(opt, 0), fault |-> f,
   before |-> [niceness |-> niceness, thread |-> thread, errno |-> errno],
   res |-> out.res, calls |-> out.calls, nativeOk |-> out.nativeOk,
   oserror |-> out.errno]

\* what is kept of the invocation before the last one
Earlier(call) == [call EXCEPT !.before.errno = 0, !.before.thread = NoCall.before.thread,
                               !.oserror = 0]

NoConv == [done |-> FALSE, value |-> 0, res |-> Ok(0)]

Init ==
  /\ platform \in {"unix", "windows"}
  /\ privileged \in IF platform = "unix" THEN BOOLEAN ELSE {FALSE}
  /\ niceness \in IF platform = "unix" THEN NiceMin..NiceMax ELSE {0}
  /\ thread \in IF platform = "windows" THEN ThreadStates ELSE {NoCall.before.thread}
  /\ errno \in IF platform = "unix" THEN StaleErrors ELSE {0}
  /\ last = NoCall
  /\ prev = NoCall
  /\ conv = NoConv

Apply(op, opt, f, out) ==
  /\ niceness' = out.niceness
  /\ thread' = out.thread
  /\ errno' = out.errno
  /\ last' = Record(op, opt, f, out)
  /\ prev' = Earlier(last)
  /\ UNCHANGED <<platform, privileged, conv>>

NiceUnix(opt, f) ==
  /\ platform = "unix"
  /\ ~f.wraps => Overflows(niceness, unwrap_or(opt, 0))
  /\ Apply("nice", opt, f.code, nice_unix(opt, State, f))

NiceWindows(opt, f, b) ==
  /\ platform = "windows"
  /\ b => (thread.background \/ unwrap_or(opt, 0) = THREAD_MODE_BACKGROUND_BEGIN)
  /\ Apply("nice", opt, f, nice_windows(opt, State, f, b))

GetUnix(f) ==
  /\ platform = "unix"
  /\ Apply("get", None, f, get_unix(State, f))

GetWindows(f) ==
  /\ platform = "windows"
  /\ Apply("get", None, f, get_windows(State, f))

\* other code of the process runs between two invocations and leaves errno
\* at some value (the Windows paths never read a last error they did not
\* just cause)
OtherCode(e) ==
  /\ platform = "unix"
  /\ errno # e
  /\ errno' = e
  /\ UNCHANGED <<platform, privileged, niceness, thread, last, prev, conv>>

Next ==
  \/ \E d \in Deltas, f \in NiceFaults : NiceUnix(Some(d), f)
  \/ \E f \in NiceFaults : NiceUnix(None, f)
  \/ \E v \in WindowsArgs, f \in WindowsFaults, b \in BOOLEAN :
        NiceWindows(Some(v), f, b)
  \/ \E f \in WindowsFaults, b \in BOOLEAN : NiceWindows(None, f, b)
  \/ \E f \in UnixFaults : GetUnix(f)
  \/ \E f \in WindowsFaults : GetWindows(f)
  \/ \E e \in StaleErrors : OtherCode(e)

Spec == Init /\ [][Next]_vars

(***************************************************************************)
(* WindowsThreadPriority::try_from on its own: a value is drawn and        *)
(* converted.                                                              *)
(***************************************************************************)
Convert(v) ==
  /\ conv' = [done |-> TRUE, value |-> v, res |-> try_from(v)]
  /\ UNCHANGED <<platform, privileged, niceness, thread, errno, last, prev>>

InitConv ==
  /\ platform = "windows"
  /\ privileged = FALSE
  /\ niceness = 0
  /\ thread = NoCall.before.thread
  /\ errno = 0
  /\ last = NoCall
  /\ prev = NoCall
  /\ conv = NoConv

NextConv == \E v \in TryValues : Convert(v)

SpecConv == InitConv /\ [][NextConv]_vars

(***************************************************************************)
(* Properties.                                                             *)
(***************************************************************************)
\* the nine codes of the Windows priority levels
Codes == {65536, 131072, 1, -1, 2, -15, -2, 0, 15}

DigitValue(c) == CHOOSE d \in 0..9 : DigitChar(d) = c

RECURSIVE ParseDigits(_)
ParseDigits(cs) ==
  IF Len(cs) = 1 THEN DigitValue(cs[1])
  ELSE 10 * ParseDigits(SubSeq(cs, 1, Len(cs) - 1)) + DigitValue(cs[Len(cs)])

ParseDecimal(cs) ==
  IF cs[1] = "-" THEN 0 - ParseDigits(SubSeq(cs, 2, Len(cs))) ELSE ParseDigits(cs)

\* the message is the decimal text of v followed by the fixed explanation
MessageStates(m, v) ==
  /\ Len(m) >= 2
  /\ m[Len(m)] = NotValidSuffix
  /\ \A i \in 1..(Len(m) - 1) : m[i] \in {"-"} \cup {DigitChar(d) : d \in 0..9}
  /\ ParseDecimal(SubSeq(m, 1, Len(m) - 1)) = v

IsInvalidArg(r, v) ==
  /\ ~r.ok
  /\ r.kind = "InvalidArg"
  /\ r.level = ""
  /\ MessageStates(r.msg, v)

\* C1: on Unix, a read whose getpriority query set no error returns Ok with
\* exactly the niceness the query returned, whatever errno held before the
\* call and also for negative values and -1; it returns Err only when the
\* query itself left errno non-zero, and then with that error.
C1_NoFalseFailure ==
  (platform = "unix" /\ last.op = "get") =>
    /\ last.nativeOk => last.res = Ok(last.before.niceness)
    /\ ~last.res.ok => (~last.nativeOk /\ last.oserror # 0 /\ last.res = OsErr(last.oserror))

C1_Witness ==
  /\ platform = "unix"
  /\ last.op = "get"
  /\ last.before.errno # 0
  /\ last.before.niceness = -1
  /\ last.res = Ok(-1)

\* C2: on Unix, whenever the OS adjustment succeeds nice(d) returns Ok(n), n
\* the resulting niceness of the process; nice(0) returns Ok(p) from every
\* prior niceness p, -1 included, and leaves the niceness at p.
C2_NiceReturnsNiceness ==
  (platform = "unix" /\ last.op = "nice" /\ last.nativeOk) =>
    /\ last.res = Ok(niceness)
    /\ last.arg = 0 => (last.res = Ok(last.before.niceness) /\ niceness = last.before.niceness)

\* C3: on Windows, nice(v) with v outside the nine codes returns InvalidArg
\* with v in its message, makes no SetThreadPriority call and leaves the
\* thread's priority as it was.
C3_InvalidRejected ==
  (platform = "windows" /\ last.op = "nice" /\ last.arg \notin Codes) =>
    /\ IsInvalidArg(last.res, last.arg)
    /\ last.calls = 0
    /\ thread = last.before.thread

C3_Witness ==
  /\ platform = "windows"
  /\ last.op = "nice"
  /\ last.arg = 99
  /\ last.before.thread.priority = 2
  /\ last.before.thread.background
  /\ ~last.res.ok

\* C4 as stated: on Windows, for every recognized code c whose native set
\* call succeeds nice(c) returns Ok(c), and a read made directly afterwards
\* returns Ok(c).
C4_SetThenGetAnyCode ==
  /\ (platform = "windows" /\ last.op = "nice" /\ last.nativeOk) => last.res = Ok(last.arg)
  /\ (platform = "windows" /\ prev.op = "nice" /\ prev.nativeOk
        /\ last.op = "get" /\ last.nativeOk) => last.res = Ok(prev.arg)

\* C4 (amended): on Windows, for every recognized code c whose native set
\* call succeeds nice(c) returns Ok(c); when c is one of the seven thread
\* priority levels (not a background-mode code) and the thread is not in
\* background processing mode, a read made directly afterwards returns Ok(c).
C4_SetThenGetLevel ==
  /\ (platform = "windows" /\ last.op = "nice" /\ last.nativeOk) =>
        (last.arg \in Codes /\ last.res = Ok(last.arg))
  /\ (platform = "windows" /\ prev.op = "nice" /\ prev.nativeOk
        /\ prev.arg \notin {65536, 131072}
        /\ ~last.before.thread.background
        /\ last.op = "get" /\ last.nativeOk) => last.res = Ok(prev.arg)

C4_Witness ==
  /\ platform = "windows"
  /\ prev.op = "nice" /\ prev.nativeOk /\ prev.arg = 2 /\ prev.res = Ok(2)
  /\ last.op = "get" /\ last.res = Ok(2)
  /\ last.before.thread = [priority |-> 2, background |-> FALSE, saved |-> 2]

\* C5: try_from rejects every value that is not one of the nine codes with
\* an InvalidArg error whose message states the value in decimal; it never
\* yields a level for such a value.
C5_OthersRejected ==
  (conv.done /\ conv.value \notin Codes) => IsInvalidArg(conv.res, conv.value)

C5_Witness ==
  /\ conv.done
  /\ conv.value = -16
  /\ conv.res.kind = "InvalidArg"
  /\ conv.res.msg = <<"-", "1", "6", NotValidSuffix>>

\* C6: for each of the nine codes c, try_from(c) succeeds and the level it
\* yields converts back to c; the nine codes and the nine levels are in
\* one-to-one correspondence.
C6_RoundTrip ==
  /\ (conv.done /\ conv.value \in Codes) =>
        (conv.res.ok /\ conv.res.level \in WindowsThreadPriority
           /\ AsI32(conv.res.level) = conv.value)
  /\ \A c1, c2 \in Codes : try_from(c1).level = try_from(c2).level => c1 = c2
  /\ \A l \in WindowsThreadPriority : \E c \in Codes : try_from(c) = OkLevel(l)

C6_Witness ==
  /\ conv.done
  /\ conv.value = 131072
  /\ conv.res = OkLevel("ThreadModeBackgroundEnd")

\* the niceness one healthy nice(d) leaves a process at, from niceness p
SingleNice(p, d) == nice_unix(Some(d), [niceness |-> p, thread |-> thread, errno |-> 0,
                                         privileged |-> privileged], NoFault).niceness

\* C7 as stated: on Unix, nice(d1) then nice(d2) leaves the process at the
\* niceness a single nice(d1 + d2) from the same start leaves it at (d1 + d2
\* being an i32, or the single call could not be made); from niceness 0,
\* nice(5) returns 5 and a second nice(5) returns 10.
C7_TwoStepsAsOne ==
  (platform = "unix" /\ prev.op = "nice" /\ last.op = "nice"
     /\ prev.fault = 0 /\ last.fault = 0 /\ ~Overflows(prev.arg, last.arg)) =>
    /\ niceness = SingleNice(prev.before.niceness, prev.arg + last.arg)
    /\ (prev.before.niceness = 0 /\ prev.arg = 5 /\ last.arg = 5) =>
          (prev.res = Ok(5) /\ last.res = Ok(10))

\* C7 (amended): on Unix, when both libc::nice calls succeed, the first one
\* is not clamped (start + d1 lies in the niceness range) and neither
\* d1 + d2 nor start + d1 + d2 overflows an i32, nice(d1) then nice(d2)
\* leaves the process at the niceness a single nice(d1 + d2) from the same
\* start leaves it at, which is start + d1 + d2 clamped into the range; from
\* niceness 0, nice(5) returns 5 and a second nice(5) returns 10.
C7_TwoStepsAsOneUnclamped ==
  (platform = "unix" /\ prev.op = "nice" /\ last.op = "nice") =>
    /\ (/\ prev.nativeOk /\ last.nativeOk
        /\ ~Overflows(prev.before.niceness, prev.arg)
        /\ prev.before.niceness + prev.arg \in NiceMin..NiceMax
        /\ ~Overflows(prev.arg, last.arg)
        /\ ~Overflows(prev.before.niceness, prev.arg + last.arg)) =>
          /\ niceness = SingleNice(prev.before.niceness, prev.arg + last.arg)
          /\ niceness = Clamp(prev.before.niceness + (prev.arg + last.arg))
    /\ (prev.before.niceness = 0 /\ prev.arg = 5 /\ last.arg = 5
          /\ prev.fault = 0 /\ last.fault = 0) =>
          (prev.res = Ok(5) /\ last.res = Ok(10))

C7_Witness ==
  /\ platform = "unix"
  /\ prev.op = "nice" /\ prev.before.niceness = 0 /\ prev.arg = MaxDelta
  /\ prev.res = Ok(MaxDelta)
  /\ last.op = "nice" /\ last.arg = MaxDelta /\ last.res = Ok(2 * MaxDelta)
  /\ niceness = 2 * MaxDelta

\* C8: a read leaves the niceness (Unix) or the thread priority (Windows)
\* unchanged; a read made while the native query works succeeds with the
\* current value, also when no nice call was ever made; two consecutive
\* reads that return a value return the same one.
C8_ReadIsPure ==
  /\ last.op = "get" =>
       /\ niceness = last.before.niceness
       /\ thread = last.before.thread
       /\ last.fault = 0 =>
            last.res = Ok(IF platform = "unix" THEN niceness ELSE thread.priority)
  /\ (prev.op = "get" /\ last.op = "get" /\ prev.fault = 0 /\ last.fault = 0) =>
       (last.res.ok /\ last.res = prev.res)
  /\ (prev.op = "get" /\ last.op = "get" /\ prev.res.ok /\ last.res.ok) =>
       last.res = prev.res

C8_Witness ==
  /\ prev.op = "get" /\ last.op = "get"
  /\ platform = "windows"
  /\ thread.priority = -1
  /\ prev.res = Ok(-1) /\ last.res = Ok(-1)

\* C9: an invocation makes at most one native priority call; when that call
\* fails the invocation returns an error carrying the OS failure.
C9_SingleCallNoMasking ==
  last.op \in {"nice", "get"} =>
    /\ last.calls <= 1
    /\ (last.calls = 1 /\ ~last.nativeOk) =>
         /\ ~last.res.ok
         /\ last.oserror # 0
         /\ last.res.code = last.oserror
         /\ last.res.kind = IF platform = "windows" /\ last.op = "nice"
                              THEN "GenericFailure" ELSE "Os"

C9_Witness ==
  /\ platform = "windows"
  /\ last.op = "nice"
  /\ last.arg = 65536
  /\ last.fault = 0
  /\ last.calls = 1
  /\ last.res = NewErr("GenericFailure", 400, <<>>)

\* C10: whenever nice returns an error, the niceness (Unix) or the thread
\* priority (Windows) is what it was immediately before the call; stated
\* for the calls whose native facility met no failure from outside the
\* program.
C10_ErrLeavesPriority ==
  (last.op = "nice" /\ ~last.res.ok /\ last.fault = 0) =>
    (niceness = last.before.niceness /\ thread = last.before.thread)

====
